---- MODULE Spec2Model ----
(***************************************************************************)
(* DeepResearch: the Research State Manager (thought log, reasoning tree,  *)
(* cursor), the Reasoning Engine's ReAct cycle and the research loop of    *)
(* DeepSearch.research.                                                    *)
(*                                                                         *)
(* Numbers that are fractions in the source (confidences, scores, the      *)
(* outcomes of Math.random) are integers in hundredths: 0.5 is 50.         *)
(* An optional value (confidence?, parentId?, detail?) is a sequence of    *)
(* length 0 (undefined) or 1.  An object reference is the index of the     *)
(* object in the sequence that holds the objects of its class: a Thought   *)
(* is referred to by its position in state.thoughts, a ReasoningNode by    *)
(* its position in nodes; 0 is the undefined reference.                    *)
(***************************************************************************)
EXTENDS Integers, Sequences, FiniteSets, TLC

VARIABLES
    stateManager,   \* the ResearchStateManager: [state, nodes, uuid]
    calls,          \* API calls made so far by the caller of the State Manager
    ret,            \* the last State Manager call and what it returned
    pc,             \* where research() / executeReActCycle is suspended
    reasoningCycles,\* research(): let reasoningCycles
    contextWindow,  \* DeepSearch.contextWindow
    toolUsageCount, \* ReasoningEngine.toolUsageCount
    cycle,          \* the locals of the running executeReActCycle
    cycleReturn,    \* what the last executeReActCycle returned
    answer,         \* the last reply of the sufficiency oracle
    oracle,         \* the environment: [varied, free]
    followUp,       \* the follow-up searches of the earlier DeepSearch.research
    browserManager  \* the BrowserManager and the calls in flight on it

smVars == <<stateManager, calls, ret>>

researchVars == <<pc, reasoningCycles, contextWindow, toolUsageCount, cycle,
                  cycleReturn, answer, oracle, followUp, browserManager>>

\* What a session of DeepSearch.research (as modelled here) leaves alone
outsideVars == <<calls, ret, followUp, browserManager>>

\* Everything but followUp and browserManager
sessionVars == <<stateManager, calls, ret, pc, reasoningCycles, contextWindow,
                 toolUsageCount, cycle, cycleReturn, answer, oracle>>

vars == <<stateManager, calls, ret, pc, reasoningCycles, contextWindow,
          toolUsageCount, cycle, cycleReturn, answer, oracle, followUp,
          browserManager>>

-----------------------------------------------------------------------------
(* Bounds *)

\* The caller of the State Manager makes at most MaxCalls calls.
MaxCalls == 4

\* In at most MaxVaried cycles of a session the oracle, the tools and
\* Math.random are free to answer anything; in the other cycles they give the
\* nominal answers (NominalPaths, NominalTool, ...).
MaxVaried == 1

-----------------------------------------------------------------------------
(* Values *)

Undefined == <<>>

Some(v) == <<v>>

TOPIC == "X"

\* confidence: 0.5 // Initial neutral confidence
NeutralConfidence == 50

\* The amount markCurrentNodeExplored adds or subtracts.
ConfidenceNudge == 20

\* The clamps of markCurrentNodeExplored.
ConfidenceCeiling == 100

ConfidenceFloor == 10

Min(a, b) == IF a < b THEN a ELSE b

Max(a, b) == IF a > b THEN a ELSE b

-----------------------------------------------------------------------------
(* ResearchStateManager *)

\* uuidv4(): a fresh identifier; m.uuid counts the identifiers drawn so far.
uuidv4(m) == m.uuid + 1

\* constructor + initReasoningTree
NewStateManager(topic) ==
    LET rootThought == [id |-> 1, type |-> "thought", content |-> "plan",
                        confidence |-> Undefined, parentId |-> Undefined]
        rootNode == [id |-> rootThought.id, thought |-> 1, children |-> <<>>,
                     isExplored |-> FALSE, confidence |-> NeutralConfidence]
    IN [state |-> [status |-> "idle",
                   currentTopic |-> topic,
                   thoughts |-> <<rootThought>>,
                   reasoningTree |-> 1,
                   currentNode |-> 1,
                   collectedInfo |-> <<>>,
                   finalReport |-> "",
                   currentStep |-> "",
                   stepDetails |-> <<>>],
        nodes |-> <<rootNode>>,
        uuid |-> 1]

\* updateStatus(status, step, detail?): an empty detail is falsy and not logged.
updateStatus(m, status, step, detail) ==
    [m EXCEPT !.state.status = status,
              !.state.currentStep = step,
              !.state.stepDetails =
                  IF detail # Undefined /\ detail[1] # ""
                  THEN Append(@, detail[1]) ELSE @]

\* confidence || 0.5 : undefined and 0 both give 0.5
NodeConfidence(confidence) ==
    IF confidence = Undefined \/ confidence[1] = 0
    THEN NeutralConfidence ELSE confidence[1]

\* Mutant of AttachParent: every new node is hung under the root.
AttachParentRoot(m) == m.state.reasoningTree

\* The node addThought hangs the new node under.
AttachParent(m) == m.state.currentNode

\* Mutant of ThoughtId: no new identifier is drawn, the last one is used again.
ThoughtIdReused(m) == m.uuid

\* The id addThought gives the new Thought.
ThoughtId(m) == uuidv4(m)

\* addThought(type, content, confidence?): the manager after the call.  The
\* returned Thought is the last of the log (see addThoughtResult).
addThought(m, type, content, confidence) ==
    LET cur == m.state.currentNode
        thought == [id |-> ThoughtId(m), type |-> type, content |-> content,
                    confidence |-> confidence,
                    parentId |-> IF cur # 0 THEN Some(m.nodes[cur].id)
                                 ELSE Undefined]
        ref == Len(m.state.thoughts) + 1
        newNode == [id |-> thought.id, thought |-> ref, children |-> <<>>,
                    isExplored |-> FALSE,
                    confidence |-> NodeConfidence(confidence)]
        h == Len(m.nodes) + 1
        logged == [m EXCEPT !.state.thoughts = Append(@, thought),
                            !.uuid = uuidv4(m)]
    IN IF cur # 0
       THEN [logged EXCEPT
                !.nodes = Append([@ EXCEPT ![AttachParent(m)].children =
                                               Append(@, h)], newNode),
                !.state.currentNode = h]
       ELSE logged

\* The reference addThought returns: the Thought it has just logged.
addThoughtResult(m) == Len(m.state.thoughts)

RECURSIVE findNodeById(_, _, _)
RECURSIVE findInChildren(_, _, _, _)

\* for (const child of node.children) { found = findNodeById(id, child) ... }
findInChildren(ns, id, children, i) ==
    IF i > Len(children) THEN 0
    ELSE LET found == findNodeById(ns, id, children[i])
         IN IF found # 0 THEN found
            ELSE findInChildren(ns, id, children, i + 1)

\* findNodeById(id, node): depth-first, the node itself first
findNodeById(ns, id, node) ==
    IF node = 0 THEN 0
    ELSE IF ns[node].id = id THEN node
    ELSE findInChildren(ns, id, ns[node].children, 1)

\* Mutant of navigateLookup: the search looks at the root and at the root's
\* children and does not descend further.
navigateLookupShallow(m, nodeId) ==
    LET ns == m.nodes
        root == m.state.reasoningTree
        hits == {i \in 1..Len(ns[root].children) :
                    ns[ns[root].children[i]].id = nodeId}
    IN IF ns[root].id = nodeId THEN root
       ELSE IF hits = {} THEN 0
       ELSE ns[root].children[CHOOSE i \in hits : \A j \in hits : i <= j]

\* What navigateToNode looks up.
navigateLookup(m, nodeId) == findNodeById(m.nodes, nodeId, m.state.reasoningTree)

\* Mutant of navigateToNode: backtracking prunes, the node the cursor moves to
\* loses its children.
navigateToNodePruning(m, nodeId) ==
    LET node == navigateLookup(m, nodeId)
    IN IF node # 0
       THEN [m EXCEPT !.state.currentNode = node, !.nodes[node].children = <<>>]
       ELSE m

\* navigateToNode(nodeId): the manager after the call
navigateToNode(m, nodeId) ==
    LET node == navigateLookup(m, nodeId)
    IN IF node # 0 THEN [m EXCEPT !.state.currentNode = node] ELSE m

\* navigateToNode(nodeId): the boolean it returns
navigateToNodeResult(m, nodeId) == navigateLookup(m, nodeId) # 0

\* storeInfo(key, value): Map.set keeps the position of a key already present
storeInfo(m, key, value) ==
    LET info == m.state.collectedInfo
        at == {i \in 1..Len(info) : info[i].key = key}
    IN [m EXCEPT !.state.collectedInfo =
           IF at = {} THEN Append(info, [key |-> key, value |-> value])
           ELSE [i \in 1..Len(info) |->
                    IF i \in at THEN [key |-> key, value |-> value]
                    ELSE info[i]]]

\* getInfo(key): the stored value, or undefined
getInfo(m, key) ==
    LET info == m.state.collectedInfo
        at == {i \in 1..Len(info) : info[i].key = key}
    IN IF at = {} THEN Undefined ELSE Some(info[CHOOSE i \in at : TRUE].value)

\* A reference to one of the objects the state holds (the thoughts array, the
\* collectedInfo Map, the stepDetails array).
Ref(field) == [ref |-> field]

\* getState(): { ...this.state }, a shallow copy.  The primitive properties
\* are copied; the properties that are objects are copied as references, so
\* the copy's thoughts, collectedInfo and stepDetails are the manager's own,
\* and reasoningTree and currentNode refer to the manager's own nodes.
getState(m) ==
    [m.state EXCEPT !.thoughts = Ref("thoughts"),
                    !.collectedInfo = Ref("collectedInfo"),
                    !.stepDetails = Ref("stepDetails")]

\* Mutant of nudgedConfidence: the nudge without Math.min / Math.max.
nudgedConfidenceUnclamped(confidence, success) ==
    IF success THEN confidence + ConfidenceNudge
    ELSE confidence - ConfidenceNudge

\* The confidence markCurrentNodeExplored leaves on a node.
nudgedConfidence(confidence, success) ==
    IF success THEN Min(confidence + ConfidenceNudge, ConfidenceCeiling)
    ELSE Max(confidence - ConfidenceNudge, ConfidenceFloor)

\* Mutant of markCurrentNodeExplored: isExplored = success, so that a failure
\* call takes the flag back.
markCurrentNodeExploredBySuccess(m, success) ==
    LET cur == m.state.currentNode
    IN IF cur # 0
       THEN [m EXCEPT !.nodes[cur].isExplored = success,
                      !.nodes[cur].confidence = nudgedConfidence(@, success)]
       ELSE m

\* markCurrentNodeExplored(success = true)
markCurrentNodeExplored(m, success) ==
    LET cur == m.state.currentNode
    IN IF cur # 0
       THEN [m EXCEPT !.nodes[cur].isExplored = TRUE,
                      !.nodes[cur].confidence = nudgedConfidence(@, success)]
       ELSE m

\* Mutant of setFinalReport: storing the report also rewinds the cursor to the
\* root.
setFinalReportRewinding(m, report) ==
    [m EXCEPT !.state.finalReport = report,
              !.state.currentNode = m.state.reasoningTree]

\* setFinalReport(report)
setFinalReport(m, report) == [m EXCEPT !.state.finalReport = report]

-----------------------------------------------------------------------------
(* ReasoningEngine *)

\* ToolRegistry.getTools(): the names of the registered tools
Tools ==
    {"searchWeb", "extractWebContent", "compareInformation",
     "generateFactCheckingQueries", "suggestVisualizations",
     "captureScreenshot", "extractStructuredData", "generateResearchReport"}

\* promiseLevel === 'high' ? 0.8 : promiseLevel === 'medium' ? 0.5 : 0.3
PromiseConfidence(promiseLevel) ==
    IF promiseLevel = "high" THEN 80
    ELSE IF promiseLevel = "medium" THEN 50 ELSE 30

RECURSIVE addPathThoughts(_, _, _)

\* generateReasoningPaths: for (const path of output) addThought('thought', ...)
addPathThoughts(m, output, i) ==
    IF i > Len(output) THEN m
    ELSE addPathThoughts(
             addThought(m, "thought", "path",
                        Some(PromiseConfidence(output[i]))),
             output, i + 1)

\* generateReasoningPaths: the Thoughts it returns, in the order of the
\* oracle's output (m is the manager before they are added)
pathThoughts(m, output) ==
    [i \in 1..Len(output) |-> Len(m.state.thoughts) + i]

\* (x.confidence || 0.5), the key selectBestPath sorts by
SortKey(m, t) ==
    LET c == m.state.thoughts[t].confidence
    IN IF c = Undefined \/ c[1] = 0 THEN NeutralConfidence ELSE c[1]

\* Mutant of InsertByConfidence: a sort that is not stable, t goes in front of
\* the Thoughts already placed whose key equals its own.
InsertByConfidenceUnstable(m, sorted, t) ==
    LET k == Cardinality({j \in 1..Len(sorted) :
                             SortKey(m, sorted[j]) > SortKey(m, t)})
    IN SubSeq(sorted, 1, k) \o <<t>> \o SubSeq(sorted, k + 1, Len(sorted))

\* One step of the stable sort, highest key first: t goes behind every
\* Thought already placed whose key is at least its own.
InsertByConfidence(m, sorted, t) ==
    LET k == Cardinality({j \in 1..Len(sorted) :
                             SortKey(m, sorted[j]) >= SortKey(m, t)})
    IN SubSeq(sorted, 1, k) \o <<t>> \o SubSeq(sorted, k + 1, Len(sorted))

RECURSIVE sortedPaths(_, _, _, _)

\* [...paths].sort((a, b) => (b.confidence || 0.5) - (a.confidence || 0.5))
sortedPaths(m, paths, i, sorted) ==
    IF i > Len(paths) THEN sorted
    ELSE sortedPaths(m, paths, i + 1, InsertByConfidence(m, sorted, paths[i]))

\* selectBestPath(paths): 0 is null
selectBestPath(m, paths) ==
    IF Len(paths) = 0 THEN 0
    ELSE sortedPaths(m, paths, 1, <<>>)[1]

\* text.match(/([0-9]*\.?[0-9]+)/): the first number of the text.  A text is
\* a sequence of tokens, [kind |-> "num", value |-> hundredths] or
\* [kind |-> "word", value |-> string].
FirstNumber(text) ==
    LET at == {i \in 1..Len(text) : text[i].kind = "num"}
    IN IF at = {} THEN Undefined
       ELSE Some(text[CHOOSE i \in at : \A j \in at : i <= j].value)

\* evaluateResults: match ? parseFloat(match[0]) : 0.5, clamped to [0, 1]
evaluateScore(text) ==
    LET match == FirstNumber(text)
        score == IF match # Undefined THEN match[1] ELSE NeutralConfidence
    IN Max(0, Min(100, score))

\* Mutant of decideNextAction: the thresholds compared with > (as in the
\* README's listing) instead of >=.
decideNextActionStrict(currentScore, random) ==
    IF currentScore > 70 THEN "continue"
    ELSE IF currentScore > 40
         THEN (IF random < 70 THEN "continue" ELSE "explore_new")
         ELSE (IF random < 50 THEN "backtrack" ELSE "explore_new")

\* decideNextAction(currentScore), random the outcome of Math.random()
decideNextAction(currentScore, random) ==
    IF currentScore >= 70 THEN "continue"
    ELSE IF currentScore >= 40
         THEN (IF random < 70 THEN "continue" ELSE "explore_new")
         ELSE (IF random < 50 THEN "backtrack" ELSE "explore_new")

\* toolUsageCount.set(name, (toolUsageCount.get(name) || 0) + 1)
countTool(usage, name) ==
    [n \in DOMAIN usage \cup {name} |->
        IF n = name THEN (IF n \in DOMAIN usage THEN usage[n] ELSE 0) + 1
        ELSE usage[n]]

\* selectTool: the ToolRequest it returns for a reply of the oracle
\* (Undefined is null)
selectToolRequest(reply, topic) ==
    IF reply.kind = "throw"
    THEN Some([name |-> "searchWeb", input |-> [query |-> topic]])
    ELSE IF reply.kind = "null" THEN Undefined
    ELSE Some([name |-> reply.toolName, input |-> reply.parameters])

\* selectTool: the usage counters after it
selectToolUsage(reply, usage) ==
    IF reply.kind = "throw" THEN countTool(usage, "searchWeb")
    ELSE IF reply.kind = "null" THEN usage
    ELSE countTool(usage, reply.toolName)

\* this.tools.find(tool => tool.name === toolRequest.name) found a tool
toolFound(name) == name \in Tools

\* Mutant of caughtManager: the catch block logs nothing.
caughtManagerSilent(m) == m

\* The catch block of executeReActCycle: the manager after it
caughtManager(m) == addThought(m, "observation", "error", Some(10))

\* The catch block of executeReActCycle: what the cycle returns
caughtReturn(errorMessage) ==
    [result |-> [kind |-> "error", error |-> errorMessage],
     score |-> 10, nextAction |-> "explore_new"]

\* Mutant of patchConfidence: the score is not written to the observation.
patchConfidenceSkipped(m, thought, score) == m

\* observation.confidence = score: the Thought object is the one in the log
patchConfidence(m, thought, score) ==
    [m EXCEPT !.state.thoughts[thought].confidence = Some(score)]

-----------------------------------------------------------------------------
(* DeepSearch *)

maxReasoningCycles == 20

maxContextSize == 10

\* Mutant of loopCondition: one cycle too many.
loopConditionInclusive(cycles) == cycles <= maxReasoningCycles

\* while (reasoningCycles < this.maxReasoningCycles)
loopCondition(cycles) == cycles < maxReasoningCycles

\* addToContext(item)
addToContext(window, item) ==
    LET pushed == Append(window, item)
    IN IF Len(pushed) > maxContextSize THEN Tail(pushed) ELSE pushed

\* text.toUpperCase() of the words the sufficiency oracle uses
ToUpperCase(word) ==
    IF word \in {"yes", "Yes", "YES"} THEN "YES"
    ELSE IF word \in {"no", "No", "NO"} THEN "NO"
    ELSE word

\* shouldContinueResearch: text.toUpperCase().includes('YES')
shouldContinue(text) ==
    \E i \in 1..Len(text) : ToUpperCase(text[i]) = "YES"

\* Mutant of sufficiencyDue: the cycle count compared with >=.
sufficiencyDueFromFive(score, cycles) == score > 80 /\ cycles >= 5

\* score > 0.8 && reasoningCycles > 5
sufficiencyDue(score, cycles) == score > 80 /\ cycles > 5

\* Mutant of afterAction: 'backtrack' and 'explore_new' move the cursor back
\* to the root.
afterActionNavigating(m, nextAction) ==
    IF nextAction = "backtrack"
    THEN navigateToNode(updateStatus(m, "thinking", "Backtracking",
                            Some("Current path not promising, backtracking")),
                        m.nodes[m.state.reasoningTree].id)
    ELSE IF nextAction = "explore_new"
    THEN navigateToNode(updateStatus(m, "thinking", "Exploring New Path",
                            Some("Generating alternative reasoning paths")),
                        m.nodes[m.state.reasoningTree].id)
    ELSE m

\* research(): the status update that follows a cycle's nextAction
afterAction(m, nextAction) ==
    IF nextAction = "backtrack"
    THEN updateStatus(m, "thinking", "Backtracking",
                      Some("Current path not promising, backtracking"))
    ELSE IF nextAction = "explore_new"
    THEN updateStatus(m, "thinking", "Exploring New Path",
                      Some("Generating alternative reasoning paths"))
    ELSE m

\* research(): the first statement after the loop
beginReport(m) ==
    updateStatus(m, "reporting", "Generating Report",
                 Some("Creating comprehensive research report"))

-----------------------------------------------------------------------------
(* The environment: the text-generation oracle, the tools, Math.random *)

Num(v) == [kind |-> "num", value |-> v]

Word(w) == [kind |-> "word", value |-> w]

NominalPaths == [kind |-> "output", output |-> <<"medium">>]

NominalTool ==
    [kind |-> "output", toolName |-> "searchWeb",
     parameters |-> [query |-> TOPIC]]

NominalEvaluation == [kind |-> "text", text |-> <<Num(50)>>]

\* Replies to generateReasoningPaths' structured call
PathsReplies(free) ==
    IF free
    THEN {[kind |-> "throw"], [kind |-> "null"], NominalPaths}
         \cup {[kind |-> "output", output |-> o] :
                  o \in {<<>>, <<"high">>, <<"low", "high">>,
                         <<"medium", "medium">>}}
    ELSE {NominalPaths}

\* Replies to selectTool's structured call
ToolReplies(free) ==
    IF free
    THEN {[kind |-> "throw"], [kind |-> "null"], NominalTool,
          [kind |-> "output", toolName |-> "extractWebContent",
           parameters |-> [url |-> "u"]],
          [kind |-> "output", toolName |-> "webSearch",
           parameters |-> [query |-> TOPIC]]}
    ELSE {NominalTool}

\* What a tool's handler does: searchWeb catches its own errors and returns a
\* list; the other tools may throw.
HandlerOutcomes(name, free) ==
    IF ~free THEN {[kind |-> "value", value |-> "results"]}
    ELSE IF name = "searchWeb"
    THEN {[kind |-> "value", value |-> "results"],
          [kind |-> "value", value |-> "empty"]}
    ELSE {[kind |-> "value", value |-> "content"], [kind |-> "throw"]}

\* Replies to evaluateResults' text call: "0.5", "0.85", "0.39", "0.4",
\* "0.7", "8/10", "very useful"
EvaluationReplies(free) ==
    IF free
    THEN {[kind |-> "throw"], NominalEvaluation}
         \cup {[kind |-> "text", text |-> t] :
                  t \in {<<Num(85)>>, <<Num(39)>>, <<Num(40)>>, <<Num(70)>>,
                         <<Num(800), Word("/"), Num(1000)>>,
                         <<Word("very"), Word("useful")>>}}
    ELSE {NominalEvaluation}

\* Outcomes of Math.random(), in [0, 1)
RandomOutcomes(free) == IF free THEN {0, 50, 70} ELSE {0}

\* Replies to shouldContinueResearch's text call
SufficiencyReplies ==
    {[kind |-> "throw"]}
    \cup {[kind |-> "text", text |-> t] :
             t \in {<<"YES">>, <<"NO">>, <<"yes", "more">>, <<"sufficient">>}}

-----------------------------------------------------------------------------
(* A research session: specification Spec *)

\* The earlier DeepSearch before its Phase 4
IdleFollowUp ==
    [phase |-> "idle", followUpResultsPromises |-> <<>>,
     followUpResults |-> <<>>, flattenedFollowUpResults |-> <<>>]

\* A BrowserManager as constructed, nobody calling it.  Promises and browsers
\* are referred to by their index; 0 is null.
NewBrowserManager ==
    [browser |-> 0, initBrowserPromise |-> 0, promises |-> <<>>,
     browsers |-> 0, closing |-> 0,
     awaiting |-> [c \in {"a", "b", "c"} |-> [promise |-> 0, closes |-> 0]],
     calls |-> 0, closes |-> 0, launchedSinceClose |-> 0,
     received |-> {}, event |-> "none", closeReturned |-> FALSE,
     last |-> [op |-> "constructor"]]

NoReturn == [result |-> [kind |-> "none"], score |-> 0, nextAction |-> "none"]

EmptyCycle ==
    [paths |-> <<>>, selectedPath |-> 0, toolRequest |-> Undefined,
     result |-> [kind |-> "none"], observation |-> 0,
     thoughtsBefore |-> 0, thrown |-> "none", handled |-> "none",
     selection |-> "none", evaluation |-> <<>>]

IdleResearch ==
    /\ pc = "start"
    /\ reasoningCycles = 0
    /\ contextWindow = <<>>
    /\ toolUsageCount = <<>>
    /\ cycle = EmptyCycle
    /\ cycleReturn = NoReturn
    /\ answer = <<>>
    /\ oracle = [varied |-> 0, free |-> FALSE]
    /\ followUp = IdleFollowUp
    /\ browserManager = NewBrowserManager

Init ==
    /\ stateManager = NewStateManager(TOPIC)
    /\ calls = 0
    /\ ret = [op |-> "constructor"]
    /\ IdleResearch

\* research(topic), down to the loop
ResearchStart ==
    /\ pc = "start"
    /\ stateManager' = updateStatus(NewStateManager(TOPIC), "thinking",
                           "Research Planning",
                           Some("Initiating deep research process"))
    /\ contextWindow' = addToContext(contextWindow, [cycle |-> 0, score |-> 0])
    /\ reasoningCycles' = 0
    /\ toolUsageCount' = <<>>
    /\ pc' = "loop"
    /\ UNCHANGED <<outsideVars, cycle, cycleReturn, answer, oracle>>

\* while (reasoningCycles < maxReasoningCycles) { reasoningCycles++; ...
\* executeReActCycle -> generateReasoningPaths, down to its oracle call
LoopEnter ==
    /\ pc = "loop"
    /\ loopCondition(reasoningCycles)
    /\ reasoningCycles' = reasoningCycles + 1
    /\ \E free \in BOOLEAN :
          /\ free => oracle.varied < MaxVaried
          /\ oracle' = [varied |-> oracle.varied + (IF free THEN 1 ELSE 0),
                        free |-> free]
    /\ stateManager' = updateStatus(stateManager, "thinking", "Reasoning Paths",
                           Some("Generating 3 potential reasoning paths"))
    /\ cycle' = [EmptyCycle EXCEPT
                    !.thoughtsBefore = Len(stateManager.state.thoughts)]
    /\ pc' = "generateReasoningPaths"
    /\ UNCHANGED <<outsideVars, contextWindow, toolUsageCount, cycleReturn,
                   answer>>

\* the loop condition fails: on to the report
LoopExit ==
    /\ pc = "loop"
    /\ ~loopCondition(reasoningCycles)
    /\ stateManager' = beginReport(stateManager)
    /\ pc' = "generateReport"
    /\ UNCHANGED <<outsideVars, reasoningCycles, contextWindow, toolUsageCount,
                   cycle, cycleReturn, answer, oracle>>

\* generateReasoningPaths: the oracle throws, or gives no output ('Failed to
\* generate reasoning paths').  Nothing in executeReActCycle catches it: it
\* reaches the catch of research(), which throws it on.
PathsFail ==
    /\ pc = "generateReasoningPaths"
    /\ \E reply \in PathsReplies(oracle.free) :
          /\ reply.kind \in {"throw", "null"}
          /\ cycle' = [cycle EXCEPT !.thrown = "generateReasoningPaths"]
    /\ pc' = "failed"
    /\ UNCHANGED <<stateManager, outsideVars, reasoningCycles, contextWindow,
                   toolUsageCount, cycleReturn, answer, oracle>>

\* generateReasoningPaths returns; selectBestPath; down to selectTool's
\* oracle call
PathsReturn ==
    /\ pc = "generateReasoningPaths"
    /\ \E reply \in PathsReplies(oracle.free) :
          /\ reply.kind = "output"
          /\ LET added == addPathThoughts(stateManager, reply.output, 1)
                 paths == pathThoughts(stateManager, reply.output)
                 selectedPath == selectBestPath(added, paths)
             IN IF selectedPath = 0
                THEN \* 'Failed to select a reasoning path', outside the try
                     /\ stateManager' = added
                     /\ cycle' = [cycle EXCEPT !.paths = paths,
                                               !.thrown = "selectBestPath"]
                     /\ pc' = "failed"
                ELSE /\ stateManager' =
                            updateStatus(added, "thinking", "Tool Selection",
                                Some("Selecting appropriate tool"))
                     /\ cycle' = [cycle EXCEPT !.paths = paths,
                                               !.selectedPath = selectedPath]
                     /\ pc' = "selectTool"
    /\ UNCHANGED <<outsideVars, reasoningCycles, contextWindow, toolUsageCount,
                   cycleReturn, answer, oracle>>

\* selectTool returns; the tool is looked up; down to the handler's call
ToolSelected ==
    /\ pc = "selectTool"
    /\ \E reply \in ToolReplies(oracle.free) :
          LET toolRequest == selectToolRequest(reply, stateManager.state.currentTopic)
          IN /\ toolUsageCount' = selectToolUsage(reply, toolUsageCount)
             /\ IF toolRequest = Undefined
                THEN \* 'Failed to select appropriate tool'
                     /\ stateManager' = caughtManager(stateManager)
                     /\ cycle' = [cycle EXCEPT !.thrown = "selectTool",
                                               !.selection = reply.kind]
                     /\ cycleReturn' = caughtReturn("Failed to select appropriate tool")
                     /\ pc' = "returned"
                ELSE LET acting == updateStatus(stateManager, "acting",
                                       "Tool Execution", Some("Using tool"))
                     IN IF ~toolFound(toolRequest[1].name)
                        THEN \* 'Tool not found'
                             /\ stateManager' = caughtManager(acting)
                             /\ cycle' = [cycle EXCEPT
                                             !.toolRequest = toolRequest,
                                             !.selection = reply.kind,
                                             !.thrown = "toolLookup"]
                             /\ cycleReturn' = caughtReturn("Tool not found")
                             /\ pc' = "returned"
                        ELSE /\ stateManager' = acting
                             /\ cycle' = [cycle EXCEPT
                                             !.toolRequest = toolRequest,
                                             !.selection = reply.kind]
                             /\ cycleReturn' = cycleReturn
                             /\ pc' = "handle"
    /\ UNCHANGED <<outsideVars, reasoningCycles, contextWindow, answer, oracle>>

\* selectedTool.handle(toolRequest.input) returns or throws
ToolHandled ==
    /\ pc = "handle"
    /\ \E outcome \in HandlerOutcomes(cycle.toolRequest[1].name, oracle.free) :
          IF outcome.kind = "throw"
          THEN /\ stateManager' = caughtManager(stateManager)
               /\ cycle' = [cycle EXCEPT !.thrown = "handle",
                               !.handled = cycle.toolRequest[1].name]
               /\ cycleReturn' = caughtReturn("tool error")
               /\ pc' = "returned"
          ELSE LET observing == updateStatus(stateManager, "observing",
                                    "Result Evaluation",
                                    Some("Evaluating results"))
                   observed == addThought(observing, "observation",
                                          outcome.value, Undefined)
               IN /\ stateManager' = observed
                  /\ cycle' = [cycle EXCEPT
                                  !.result = outcome,
                                  !.observation = addThoughtResult(observed),
                                  !.handled = cycle.toolRequest[1].name]
                  /\ cycleReturn' = cycleReturn
                  /\ pc' = "evaluateResults"
    /\ UNCHANGED <<outsideVars, reasoningCycles, contextWindow, toolUsageCount,
                   answer, oracle>>

\* evaluateResults returns or throws; observation.confidence = score;
\* markCurrentNodeExplored; down to the await of decideNextAction.  The
\* score waits in cycleReturn.
Evaluated ==
    /\ pc = "evaluateResults"
    /\ \E reply \in EvaluationReplies(oracle.free) :
          IF reply.kind = "throw"
          THEN /\ stateManager' = caughtManager(stateManager)
               /\ cycle' = [cycle EXCEPT !.thrown = "evaluateResults"]
               /\ cycleReturn' = caughtReturn("oracle error")
               /\ pc' = "returned"
          ELSE LET score == evaluateScore(reply.text)
                   patched == patchConfidence(stateManager,
                                              cycle.observation, score)
               IN /\ stateManager' =
                         markCurrentNodeExplored(patched, score >= 50)
                  /\ cycle' = [cycle EXCEPT !.evaluation = reply.text]
                  /\ cycleReturn' =
                         [result |-> cycle.result, score |-> score,
                          nextAction |-> "none"]
                  /\ pc' = "decide"
    /\ UNCHANGED <<outsideVars, reasoningCycles, contextWindow, toolUsageCount,
                   answer, oracle>>

\* decideNextAction(score) returns; the cycle returns
Decided ==
    /\ pc = "decide"
    /\ \E random \in RandomOutcomes(oracle.free) :
          cycleReturn' =
              [cycleReturn EXCEPT
                  !.nextAction = decideNextAction(cycleReturn.score, random)]
    /\ pc' = "returned"
    /\ UNCHANGED <<stateManager, outsideVars, reasoningCycles, contextWindow,
                   toolUsageCount, cycle, answer, oracle>>

\* research(): from the cycle's return to the next oracle call or to the
\* loop condition
AfterCycle ==
    /\ pc = "returned"
    /\ contextWindow' = addToContext(contextWindow,
                            [cycle |-> reasoningCycles,
                             score |-> cycleReturn.score])
    /\ LET m == afterAction(stateManager, cycleReturn.nextAction)
       IN IF sufficiencyDue(cycleReturn.score, reasoningCycles)
          THEN /\ stateManager' =
                      updateStatus(m, "thinking", "Evaluating Research",
                          Some("Checking if enough information has been gathered"))
               /\ pc' = "shouldContinueResearch"
          ELSE /\ stateManager' = m
               /\ pc' = "loop"
    /\ UNCHANGED <<outsideVars, reasoningCycles, toolUsageCount, cycle,
                   cycleReturn, answer, oracle>>

\* shouldContinueResearch returns (continue, or break) or throws
SufficiencyAnswered ==
    /\ pc = "shouldContinueResearch"
    /\ \E reply \in SufficiencyReplies :
          IF reply.kind = "throw"
          THEN /\ pc' = "failed"
               /\ UNCHANGED <<stateManager, answer>>
          ELSE /\ answer' = reply.text
               /\ IF shouldContinue(reply.text)
                  THEN /\ pc' = "loop"
                       /\ UNCHANGED stateManager
                  ELSE /\ pc' = "generateReport"
                       /\ stateManager' = beginReport(stateManager)
    /\ UNCHANGED <<outsideVars, reasoningCycles, contextWindow, toolUsageCount,
                   cycle, cycleReturn, oracle>>

\* generateReport / saveReport return, setFinalReport; or one of them throws
ReportGenerated ==
    /\ pc = "generateReport"
    /\ \E ok \in BOOLEAN :
          IF ok
          THEN /\ stateManager' = setFinalReport(stateManager, "report")
               /\ pc' = "done"
          ELSE /\ pc' = "failed"
               /\ UNCHANGED stateManager
    /\ UNCHANGED <<outsideVars, reasoningCycles, contextWindow, toolUsageCount,
                   cycle, cycleReturn, answer, oracle>>

Next ==
    \/ ResearchStart
    \/ LoopEnter
    \/ LoopExit
    \/ PathsFail
    \/ PathsReturn
    \/ ToolSelected
    \/ ToolHandled
    \/ Evaluated
    \/ Decided
    \/ AfterCycle
    \/ SufficiencyAnswered
    \/ ReportGenerated

Spec == Init /\ [][Next]_vars

\* The event loop runs every continuation that is ready, and every call to
\* the oracle or to a tool settles (it returns or it throws).
FairSpec == Spec /\ WF_vars(Next)

-----------------------------------------------------------------------------
(* The natural-thinking executeReActCycle (the second version of           *)
(* ReasoningEngine.ts) under the same research loop: specification         *)
(* SpecNatural.  The whole cycle is inside the try block; it always uses   *)
(* searchWeb, reads the score as N/10 and the next action from keywords,   *)
(* and stores the findings of a useful search.                             *)

\* haystack.includes(needle) for the words the replies are made of
Contains(haystack, needle) ==
    \/ haystack = needle
    \/ <<haystack, needle>> \in
           {<<"very useful", "useful">>, <<"extremely useful", "useful">>,
            <<"not useful", "useful">>, <<"unhelpful", "helpful">>,
            <<"go back", "back">>, <<"a different angle", "different">>}

\* text.toLowerCase().includes(phrase)
Includes(text, phrase) ==
    \E i \in 1..Len(text) :
        text[i].kind = "word" /\ Contains(text[i].value, phrase)

\* evaluation.match(/(\d+(\.\d+)?)\s*\/\s*10|(\d+(\.\d+)?)\s*out of\s*10/i):
\* the positions where a number is followed by "/ 10" or "out of 10"
ScoreMatches(text) ==
    {i \in 1..Len(text) :
        /\ i + 2 <= Len(text)
        /\ text[i].kind = "num"
        /\ text[i + 1] \in {Word("/"), Word("out of")}
        /\ text[i + 2] = Num(1000)}

\* The score the cycle reads from the evaluation text: parseFloat(N) / 10 of
\* the first match, or else the keyword's score, or else the initial 0.5
naturalScore(text) ==
    LET at == ScoreMatches(text)
    IN IF at # {}
       THEN text[CHOOSE i \in at : \A j \in at : i <= j].value \div 10
       ELSE IF Includes(text, "very useful") \/ Includes(text, "extremely useful")
       THEN 90
       ELSE IF Includes(text, "useful") \/ Includes(text, "helpful") THEN 70
       ELSE IF Includes(text, "somewhat") \/ Includes(text, "partially") THEN 50
       ELSE IF Includes(text, "not very") \/ Includes(text, "limited") THEN 30
       ELSE IF Includes(text, "not useful") \/ Includes(text, "unhelpful") THEN 10
       ELSE NeutralConfidence

\* The next action the cycle reads from the next-step text
naturalNextAction(text) ==
    IF Includes(text, "different") \/ Includes(text, "new direction")
       \/ Includes(text, "alternative")
    THEN "explore_new"
    ELSE IF Includes(text, "previous") \/ Includes(text, "earlier")
            \/ Includes(text, "back")
    THEN "backtrack"
    ELSE "continue"

\* The query the cycle extracts from the search decision: the one the text
\* gives, or else the topic
finalQuery(reply, topic) ==
    IF reply.query # Undefined /\ reply.query[1] # "" THEN reply.query[1]
    ELSE topic

\* const infoKey = `Search: ${finalQuery}`
infoKey(query) == <<"Search: ", query>>

\* if (score > 0.4 && searchResults.length > 0)
insightsDue(score, result) == score > 40 /\ result.value # "empty"

\* Replies to the free-text calls of the cycle (open thinking, analysis,
\* insights)
ProseReplies(free) ==
    IF free THEN {[kind |-> "throw"], [kind |-> "text"]}
    ELSE {[kind |-> "text"]}

\* Replies to the search-decision call: a text with a SEARCH QUERY line, or
\* one the cycle finds no query in
SearchDecisionReplies(free) ==
    IF free
    THEN {[kind |-> "throw"], [kind |-> "text", query |-> Some("Q")],
          [kind |-> "text", query |-> Undefined]}
    ELSE {[kind |-> "text", query |-> Undefined]}

\* Replies to the evaluation call: "8/10", "15/10", "9 out of 10",
\* "very useful", "not useful", "limited", "fine"
NaturalEvaluationReplies(free) ==
    IF free
    THEN {[kind |-> "throw"]}
         \cup {[kind |-> "text", text |-> t] :
                  t \in {<<Num(800), Word("/"), Num(1000)>>,
                         <<Num(1500), Word("/"), Num(1000)>>,
                         <<Num(900), Word("out of"), Num(1000)>>,
                         <<Word("very useful")>>, <<Word("not useful")>>,
                         <<Word("limited")>>, <<Word("fine")>>}}
    ELSE {[kind |-> "text", text |-> <<Word("fine")>>]}

\* Replies to the next-step call
NextStepReplies(free) ==
    IF free
    THEN {[kind |-> "throw"]}
         \cup {[kind |-> "text", text |-> t] :
                  t \in {<<Word("a different angle")>>, <<Word("go back")>>,
                         <<Word("deeper")>>}}
    ELSE {[kind |-> "text", text |-> <<Word("deeper")>>]}

\* while (reasoningCycles < maxReasoningCycles) { reasoningCycles++; ...
\* executeReActCycle, down to the open-thinking call
NaturalLoopEnter ==
    /\ pc = "loop"
    /\ loopCondition(reasoningCycles)
    /\ reasoningCycles' = reasoningCycles + 1
    /\ \E free \in BOOLEAN :
          /\ free => oracle.varied < MaxVaried
          /\ oracle' = [varied |-> oracle.varied + (IF free THEN 1 ELSE 0),
                        free |-> free]
    /\ cycle' = [EmptyCycle EXCEPT
                    !.thoughtsBefore = Len(stateManager.state.thoughts)]
    /\ pc' = "openThinking"
    /\ UNCHANGED <<stateManager, outsideVars, contextWindow, toolUsageCount,
                   cycleReturn, answer>>

\* the open-thinking call returns or throws
OpenThinkingReturned ==
    /\ pc = "openThinking"
    /\ \E reply \in ProseReplies(oracle.free) :
          IF reply.kind = "throw"
          THEN /\ stateManager' = caughtManager(stateManager)
               /\ cycle' = [cycle EXCEPT !.thrown = "openThinking"]
               /\ cycleReturn' = caughtReturn("oracle error")
               /\ pc' = "returned"
          ELSE /\ pc' = "searchDecision"
               /\ UNCHANGED <<stateManager, cycle, cycleReturn>>
    /\ UNCHANGED <<outsideVars, reasoningCycles, contextWindow, toolUsageCount,
                   answer, oracle>>

\* the search-decision call returns or throws; the query is extracted; down
\* to the call of searchWeb's handler
SearchDecided ==
    /\ pc = "searchDecision"
    /\ \E reply \in SearchDecisionReplies(oracle.free) :
          IF reply.kind = "throw"
          THEN /\ stateManager' = caughtManager(stateManager)
               /\ cycle' = [cycle EXCEPT !.thrown = "searchDecision"]
               /\ cycleReturn' = caughtReturn("oracle error")
               /\ pc' = "returned"
          ELSE LET query == finalQuery(reply, stateManager.state.currentTopic)
                   acting == updateStatus(stateManager, "acting", "Searching",
                                          Some("Researching"))
               IN IF ~toolFound("searchWeb")
                  THEN /\ stateManager' = caughtManager(acting)
                       /\ cycle' = [cycle EXCEPT !.thrown = "toolLookup"]
                       /\ cycleReturn' = caughtReturn("Search tool not available")
                       /\ pc' = "returned"
                  ELSE /\ stateManager' = acting
                       /\ cycle' = [cycle EXCEPT !.toolRequest =
                                       Some([name |-> "searchWeb",
                                             input |-> [query |-> query]])]
                       /\ cycleReturn' = cycleReturn
                       /\ pc' = "searchHandle"
    /\ UNCHANGED <<outsideVars, reasoningCycles, contextWindow, toolUsageCount,
                   answer, oracle>>

\* searchTool.handle({ query }) returns; down to the analysis call
SearchHandled ==
    /\ pc = "searchHandle"
    /\ \E outcome \in HandlerOutcomes("searchWeb", oracle.free) :
          cycle' = [cycle EXCEPT !.result = outcome, !.handled = "searchWeb"]
    /\ pc' = "analysis"
    /\ UNCHANGED <<stateManager, outsideVars, reasoningCycles, contextWindow,
                   toolUsageCount, cycleReturn, answer, oracle>>

\* the analysis call returns or throws; the observation is logged; down to
\* the evaluation call
Analysed ==
    /\ pc = "analysis"
    /\ \E reply \in ProseReplies(oracle.free) :
          IF reply.kind = "throw"
          THEN /\ stateManager' = caughtManager(stateManager)
               /\ cycle' = [cycle EXCEPT !.thrown = "analysis"]
               /\ cycleReturn' = caughtReturn("oracle error")
               /\ pc' = "returned"
          ELSE LET observed == addThought(stateManager, "observation",
                                          cycle.result.value, Undefined)
               IN /\ stateManager' = observed
                  /\ cycle' = [cycle EXCEPT
                                  !.observation = addThoughtResult(observed)]
                  /\ cycleReturn' = cycleReturn
                  /\ pc' = "evaluation"
    /\ UNCHANGED <<outsideVars, reasoningCycles, contextWindow, toolUsageCount,
                   answer, oracle>>

\* the evaluation call returns or throws; observation.confidence = score;
\* down to the next-step call.  The score waits in cycleReturn.
NaturalEvaluated ==
    /\ pc = "evaluation"
    /\ \E reply \in NaturalEvaluationReplies(oracle.free) :
          IF reply.kind = "throw"
          THEN /\ stateManager' = caughtManager(stateManager)
               /\ cycle' = [cycle EXCEPT !.thrown = "evaluation"]
               /\ cycleReturn' = caughtReturn("oracle error")
               /\ pc' = "returned"
          ELSE LET score == naturalScore(reply.text)
               IN /\ stateManager' = patchConfidence(stateManager,
                                                     cycle.observation, score)
                  /\ cycle' = [cycle EXCEPT !.evaluation = reply.text]
                  /\ cycleReturn' = [result |-> cycle.result, score |-> score,
                                     nextAction |-> "continue"]
                  /\ pc' = "nextStep"
    /\ UNCHANGED <<outsideVars, reasoningCycles, contextWindow, toolUsageCount,
                   answer, oracle>>

\* the next-step call returns or throws; the next action is read from it;
\* the cycle returns, or goes down to the insights call
NextStepDecided ==
    /\ pc = "nextStep"
    /\ \E reply \in NextStepReplies(oracle.free) :
          IF reply.kind = "throw"
          THEN /\ stateManager' = caughtManager(stateManager)
               /\ cycle' = [cycle EXCEPT !.thrown = "nextStep"]
               /\ cycleReturn' = caughtReturn("oracle error")
               /\ pc' = "returned"
          ELSE /\ cycleReturn' = [cycleReturn EXCEPT
                                     !.nextAction = naturalNextAction(reply.text)]
               /\ pc' = IF insightsDue(cycleReturn.score, cycle.result)
                        THEN "insights" ELSE "returned"
               /\ UNCHANGED <<stateManager, cycle>>
    /\ UNCHANGED <<outsideVars, reasoningCycles, contextWindow, toolUsageCount,
                   answer, oracle>>

\* the insights call returns or throws; storeInfo; the cycle returns
InsightsStored ==
    /\ pc = "insights"
    /\ \E reply \in ProseReplies(oracle.free) :
          IF reply.kind = "throw"
          THEN /\ stateManager' = caughtManager(stateManager)
               /\ cycle' = [cycle EXCEPT !.thrown = "insights"]
               /\ cycleReturn' = caughtReturn("oracle error")
          ELSE /\ stateManager' =
                      storeInfo(stateManager,
                                infoKey(cycle.toolRequest[1].input.query),
                                [query |-> cycle.toolRequest[1].input.query,
                                 score |-> cycleReturn.score])
               /\ UNCHANGED <<cycle, cycleReturn>>
    /\ pc' = "returned"
    /\ UNCHANGED <<outsideVars, reasoningCycles, contextWindow, toolUsageCount,
                   answer, oracle>>

NextNatural ==
    \/ ResearchStart
    \/ NaturalLoopEnter
    \/ LoopExit
    \/ OpenThinkingReturned
    \/ SearchDecided
    \/ SearchHandled
    \/ Analysed
    \/ NaturalEvaluated
    \/ NextStepDecided
    \/ InsightsStored
    \/ AfterCycle
    \/ SufficiencyAnswered
    \/ ReportGenerated

SpecNatural == Init /\ [][NextNatural]_vars

-----------------------------------------------------------------------------
(* decideNextAction on its own: specification SpecDecide *)

Scores == 0..100

\* Math.random() is in [0, 1)
RandomValues == 0..99

InitDecide ==
    /\ stateManager = NewStateManager(TOPIC)
    /\ calls = 0
    /\ ret = [op |-> "constructor"]
    /\ pc = "decideNextAction"
    /\ reasoningCycles = 0
    /\ contextWindow = <<>>
    /\ toolUsageCount = <<>>
    /\ cycle = EmptyCycle
    /\ cycleReturn \in {[NoReturn EXCEPT !.score = s] : s \in Scores}
    /\ answer = <<>>
    /\ oracle = [varied |-> 0, free |-> TRUE]
    /\ followUp = IdleFollowUp
    /\ browserManager = NewBrowserManager

DecideNextAction ==
    /\ pc = "decideNextAction"
    /\ \E random \in RandomValues :
          cycleReturn' =
              [cycleReturn EXCEPT
                  !.nextAction = decideNextAction(cycleReturn.score, random)]
    /\ pc' = "decided"
    /\ UNCHANGED <<stateManager, outsideVars, reasoningCycles, contextWindow,
                   toolUsageCount, cycle, answer, oracle>>

NextDecide == DecideNextAction

SpecDecide == InitDecide /\ [][NextDecide]_vars

-----------------------------------------------------------------------------
(* The State Manager driven by an arbitrary caller: specification SpecSM *)

ThoughtTypes == {"thought", "action", "observation"}

\* The (type, confidence) pairs the caller passes to addThought: the ones the
\* engine passes (0.8, 0.3, undefined, 0.1) and the ends of the range.
ThoughtInputs ==
    {<<"thought", Some(80)>>, <<"thought", Some(30)>>,
     <<"observation", Undefined>>, <<"observation", Some(10)>>,
     <<"action", Some(0)>>, <<"action", Some(5)>>, <<"action", Some(100)>>}

\* The ids the caller passes to navigateToNode: every id that can have been
\* issued, and one that never is.
NodeIds == 1..(MaxCalls + 2)

StatusInputs ==
    {<<"thinking", "Reasoning Paths", Some("Generating paths")>>,
     <<"acting", "Tool Execution", Undefined>>}

InfoKeys == {"Search: X"}

InfoValues == {"r1", "r2"}

InitSM ==
    /\ stateManager = NewStateManager(TOPIC)
    /\ calls = 0
    /\ ret = [op |-> "constructor"]
    /\ IdleResearch

AddThought ==
    /\ calls < MaxCalls
    /\ UNCHANGED researchVars
    /\ \E in \in ThoughtInputs :
          /\ stateManager' = addThought(stateManager, in[1], "text", in[2])
          /\ ret' = [op |-> "addThought",
                     value |-> addThoughtResult(stateManager')]
    /\ calls' = calls + 1

NavigateToNode ==
    /\ calls < MaxCalls
    /\ UNCHANGED researchVars
    /\ \E nodeId \in NodeIds :
          /\ stateManager' = navigateToNode(stateManager, nodeId)
          /\ ret' = [op |-> "navigateToNode", nodeId |-> nodeId,
                     value |-> navigateToNodeResult(stateManager, nodeId)]
    /\ calls' = calls + 1

MarkCurrentNodeExplored ==
    /\ calls < MaxCalls
    /\ UNCHANGED researchVars
    /\ \E success \in BOOLEAN :
          /\ stateManager' = markCurrentNodeExplored(stateManager, success)
          /\ ret' = [op |-> "markCurrentNodeExplored", success |-> success]
    /\ calls' = calls + 1

UpdateStatus ==
    /\ calls < MaxCalls
    /\ UNCHANGED researchVars
    /\ \E in \in StatusInputs :
          stateManager' = updateStatus(stateManager, in[1], in[2], in[3])
    /\ ret' = [op |-> "updateStatus"]
    /\ calls' = calls + 1

StoreInfo ==
    /\ calls < MaxCalls
    /\ UNCHANGED researchVars
    /\ \E key \in InfoKeys, value \in InfoValues :
          stateManager' = storeInfo(stateManager, key, value)
    /\ ret' = [op |-> "storeInfo"]
    /\ calls' = calls + 1

GetInfo ==
    /\ calls < MaxCalls
    /\ \E key \in InfoKeys :
          ret' = [op |-> "getInfo", value |-> getInfo(stateManager, key)]
    /\ calls' = calls + 1
    /\ UNCHANGED <<stateManager, researchVars>>

SetFinalReport ==
    /\ calls < MaxCalls
    /\ UNCHANGED researchVars
    /\ stateManager' = setFinalReport(stateManager, "report")
    /\ ret' = [op |-> "setFinalReport"]
    /\ calls' = calls + 1

GetState ==
    /\ calls < MaxCalls
    /\ ret' = [op |-> "getState", value |-> getState(stateManager)]
    /\ calls' = calls + 1
    /\ UNCHANGED <<stateManager, researchVars>>

NextSM ==
    \/ AddThought
    \/ NavigateToNode
    \/ MarkCurrentNodeExplored
    \/ UpdateStatus
    \/ StoreInfo
    \/ GetInfo
    \/ SetFinalReport
    \/ GetState

SpecSM == InitSM /\ [][NextSM]_vars

-----------------------------------------------------------------------------
(* The State Manager and a caller that also passes confidences outside      *)
(* [0, 1] and writes into what getState() returned: specification          *)
(* SpecCaller                                                               *)

\* Confidences outside [0, 1]: 1.5 and -0.2
UncheckedConfidences == {Some(150), Some(0 - 20)}

\* What a caller does to the value getState() returned.
SnapshotWrites ==
    {"status =", "thoughts.push", "thoughts.pop", "collectedInfo.set",
     "thoughts[0].confidence =", "currentNode.isExplored ="}

\* The manager after the caller's write to the snapshot: a write to a property
\* of the copy stays in the copy, a write into an object the copy refers to
\* is a write into the manager's object.
snapshotWriteManager(m, snapshot, write) ==
    IF write = "thoughts.push" /\ snapshot.thoughts = Ref("thoughts")
    THEN [m EXCEPT !.state.thoughts =
             Append(@, [id |-> 0, type |-> "thought", content |-> "foreign",
                        confidence |-> Undefined, parentId |-> Undefined])]
    ELSE IF write = "thoughts.pop" /\ snapshot.thoughts = Ref("thoughts")
    THEN [m EXCEPT !.state.thoughts =
             IF Len(@) = 0 THEN @ ELSE SubSeq(@, 1, Len(@) - 1)]
    ELSE IF write = "collectedInfo.set"
            /\ snapshot.collectedInfo = Ref("collectedInfo")
    THEN storeInfo(m, "foreign", "v")
    ELSE IF write = "thoughts[0].confidence ="
            /\ snapshot.thoughts = Ref("thoughts")
            /\ Len(m.state.thoughts) > 0
    THEN [m EXCEPT !.state.thoughts[1].confidence = Some(90)]
    ELSE IF write = "currentNode.isExplored =" /\ snapshot.currentNode # 0
    THEN [m EXCEPT !.nodes[snapshot.currentNode].isExplored = FALSE]
    ELSE m

\* The copy after the caller's write to it
snapshotWriteCopy(snapshot, write) ==
    IF write = "status =" THEN [snapshot EXCEPT !.status = "complete"]
    ELSE snapshot

AddThoughtUnchecked ==
    /\ calls < MaxCalls
    /\ UNCHANGED researchVars
    /\ \E confidence \in UncheckedConfidences :
          /\ stateManager' = addThought(stateManager, "action", "text", confidence)
          /\ ret' = [op |-> "addThought",
                     value |-> addThoughtResult(stateManager')]
    /\ calls' = calls + 1

\* The caller changes the value the last getState() returned.
SnapshotWrite ==
    /\ calls < MaxCalls
    /\ ret.op \in {"getState", "snapshotWrite"}
    /\ UNCHANGED researchVars
    /\ \E write \in SnapshotWrites :
          /\ stateManager' = snapshotWriteManager(stateManager, ret.value, write)
          /\ ret' = [op |-> "snapshotWrite", write |-> write,
                     value |-> snapshotWriteCopy(ret.value, write)]
    /\ calls' = calls + 1

NextCaller ==
    \/ AddThought
    \/ AddThoughtUnchecked
    \/ NavigateToNode
    \/ MarkCurrentNodeExplored
    \/ UpdateStatus
    \/ StoreInfo
    \/ GetInfo
    \/ SetFinalReport
    \/ GetState
    \/ SnapshotWrite

SpecCaller == InitSM /\ [][NextCaller]_vars

-----------------------------------------------------------------------------
(* Reading the tree *)

Root(m) == m.state.reasoningTree

Cursor(m) == m.state.currentNode

NodeRefs(m) == 1..Len(m.nodes)

\* The ids of the Thoughts logged so far: the root's and every id addThought
\* has returned.
IssuedIds(m) == {m.state.thoughts[i].id : i \in 1..Len(m.state.thoughts)}

\* The nodes that have h among their children, counted with multiplicity.
ParentEdges(m, h) ==
    {<<p, i>> \in NodeRefs(m) \X (1..Len(m.nodes)) :
        i <= Len(m.nodes[p].children) /\ m.nodes[p].children[i] = h}

RECURSIVE PathCount(_, _, _, _)
RECURSIVE PathCountFrom(_, _, _, _, _)

\* The number of downward paths of at most `fuel` edges from node `from` to
\* node `to`.
PathCount(m, from, to, fuel) ==
    IF from = to THEN 1
    ELSE IF fuel = 0 THEN 0
    ELSE PathCountFrom(m, m.nodes[from].children, 1, to, fuel - 1)

PathCountFrom(m, children, i, to, fuel) ==
    IF i > Len(children) THEN 0
    ELSE PathCount(m, children[i], to, fuel)
         + PathCountFrom(m, children, i + 1, to, fuel)

AbsDiff(a, b) == IF a >= b THEN a - b ELSE b - a

-----------------------------------------------------------------------------
(* Claims on the State Manager *)

\* C1: after any sequence of addThought and navigateToNode calls the
\* reasoning structure is a strict tree: every non-root node is reached from
\* the root by exactly one path, no node is a child of two nodes (or twice a
\* child), the root is nobody's child, and no node id appears twice.
C1_StrictTree ==
    LET m == stateManager
    IN /\ \A h \in NodeRefs(m) :
            /\ PathCount(m, Root(m), h, Len(m.nodes)) = 1
            /\ Cardinality(ParentEdges(m, h)) = (IF h = Root(m) THEN 0 ELSE 1)
       /\ \A g, h \in NodeRefs(m) : m.nodes[g].id = m.nodes[h].id => g = h
       /\ Cursor(m) \in NodeRefs(m)

\* C1 witness: a tree that branches below the root's level, built by
\* addThought calls with a navigateToNode in between.
C1_Witness ==
    LET m == stateManager
    IN /\ ret.op = "addThought"
       /\ \E h \in NodeRefs(m) : h # Root(m) /\ Len(m.nodes[h].children) >= 2

\* C2: navigateToNode(id) returns true and puts the cursor on exactly the
\* node with that id whenever id is the root's id or was returned by an
\* earlier addThought; for an id no node has it returns false and the cursor
\* stays on the node it was on.
C2_Navigate ==
    [][(ret'.op = "navigateToNode" /\ calls' = calls + 1) =>
         IF ret'.nodeId \in IssuedIds(stateManager)
         THEN /\ ret'.value = TRUE
              /\ Cursor(stateManager') \in NodeRefs(stateManager)
              /\ stateManager'.nodes[Cursor(stateManager')].id = ret'.nodeId
         ELSE /\ ret'.value = FALSE
              /\ Cursor(stateManager') = Cursor(stateManager)]_vars

\* C2 witness: a navigateToNode that has succeeded in re-entering a branch
\* the cursor had left: the cursor is on a node that is neither the root nor
\* the newest node, and that is not an ancestor of the newest node.
C2_Witness ==
    LET m == stateManager
    IN /\ ret.op = "navigateToNode"
       /\ ret.value = TRUE
       /\ Cursor(m) # Root(m)
       /\ Cursor(m) # Len(m.nodes)
       /\ PathCount(m, Cursor(m), Len(m.nodes), Len(m.nodes)) = 0

Called(op) == ret'.op = op /\ calls' = calls + 1

\* C12: the explored flag of every node is monotonic: a node whose flag is
\* true keeps it true through every State Manager operation that follows.
C12_ExploredMonotonic ==
    [][\A h \in NodeRefs(stateManager) :
           stateManager.nodes[h].isExplored =>
               /\ h \in NodeRefs(stateManager')
               /\ stateManager'.nodes[h].isExplored]_vars

\* C12 witness: a node was marked explored by a success call, and a failure
\* call on the same node has followed: the flag is still set.
C12_Witness ==
    LET m == stateManager
    IN /\ ret.op = "markCurrentNodeExplored"
       /\ ~ret.success
       /\ Cursor(m) # Root(m)
       /\ m.nodes[Cursor(m)].isExplored
       /\ m.state.thoughts[m.nodes[Cursor(m)].thought].confidence = Some(80)
       /\ m.nodes[Cursor(m)].confidence = 80
       /\ calls = 3

\* The log after a step keeps every Thought of the log before it, at the same
\* position.
LogKept(m, n) ==
    /\ Len(n.state.thoughts) >= Len(m.state.thoughts)
    /\ \A i \in 1..Len(m.state.thoughts) : n.state.thoughts[i] = m.state.thoughts[i]

\* The tree after a step keeps every node of the tree before it, with the
\* children it had, in their order, before any new ones.
TreeKept(m, n) ==
    /\ Root(n) = Root(m)
    /\ Len(n.nodes) >= Len(m.nodes)
    /\ \A h \in NodeRefs(m) :
          /\ n.nodes[h].id = m.nodes[h].id
          /\ n.nodes[h].thought = m.nodes[h].thought
          /\ Len(n.nodes[h].children) >= Len(m.nodes[h].children)
          /\ \A i \in 1..Len(m.nodes[h].children) :
                 n.nodes[h].children[i] = m.nodes[h].children[i]

\* C13: the thought log and the tree only grow: no State Manager operation
\* removes or reorders a logged Thought or removes a node; navigateToNode
\* changes only the cursor, and every node that existed before the call is
\* in the tree after it with the same children.
C13_OnlyGrow ==
    [][/\ LogKept(stateManager, stateManager')
       /\ TreeKept(stateManager, stateManager')
       /\ \A h \in NodeRefs(stateManager) :
              PathCount(stateManager', Root(stateManager'), h,
                        Len(stateManager'.nodes)) >= 1
       /\ Called("navigateToNode") =>
              /\ stateManager'.nodes = stateManager.nodes
              /\ stateManager' =
                     [stateManager EXCEPT
                         !.state.currentNode = Cursor(stateManager')]]_vars

\* C13 witness: navigateToNode has moved the cursor back from a leaf to an
\* inner node that is not the root; the leaf is still that node's child.
C13_Witness ==
    LET m == stateManager
    IN /\ ret.op = "navigateToNode"
       /\ ret.value = TRUE
       /\ Cursor(m) # Root(m)
       /\ Len(m.nodes[Cursor(m)].children) >= 1
       /\ calls = 3

\* C14: the cursor changes only in addThought and in a successful
\* navigateToNode: updateStatus, storeInfo, getInfo, getState,
\* markCurrentNodeExplored, setFinalReport and a failed navigateToNode leave
\* it on the same node.
C14_CursorFrame ==
    [][/\ Cursor(stateManager') # Cursor(stateManager) =>
              \/ Called("addThought")
              \/ Called("navigateToNode") /\ ret'.value = TRUE
       /\ \A op \in {"updateStatus", "storeInfo", "getInfo", "getState",
                      "markCurrentNodeExplored", "setFinalReport"} :
              Called(op) => Cursor(stateManager') = Cursor(stateManager)
       /\ (Called("navigateToNode") /\ ret'.value = FALSE) =>
              Cursor(stateManager') = Cursor(stateManager)]_vars

\* C14 witness: setFinalReport has been called with the cursor two levels
\* below the root, and the cursor is still there.
C14_Witness ==
    LET m == stateManager
    IN /\ ret.op = "setFinalReport"
       /\ Cursor(m) = 3
       /\ PathCount(m, 2, 3, 1) = 1

-----------------------------------------------------------------------------
(* Claims on the Reasoning Engine and the research loop *)

LastThought(m) == m.state.thoughts[Len(m.state.thoughts)]

ErrorReturned ==
    /\ cycleReturn.result.kind = "error"
    /\ cycleReturn.score = 10
    /\ cycleReturn.nextAction = "explore_new"

C5_AsStated ==
    (pc = "returned" /\ cycle.thrown = "handle") =>
        /\ ErrorReturned
        /\ Len(stateManager.state.thoughts) = cycle.thoughtsBefore + 1

\* C5 (amended): a cycle in which the selected tool's handler throws returns
\* {result: {error}, score: 0.1, nextAction: 'explore_new'}; the log is then
\* longer than before the cycle by the cycle's candidate Thoughts (one per
\* generated path, at least one) and exactly one more Thought, the error
\* observation with confidence 0.1, which is the last of the log.
C5_HandlerThrows ==
    (pc = "returned" /\ cycle.thrown = "handle") =>
        /\ ErrorReturned
        /\ Len(cycle.paths) >= 1
        /\ Len(stateManager.state.thoughts) =
               cycle.thoughtsBefore + Len(cycle.paths) + 1
        /\ LastThought(stateManager).type = "observation"
        /\ LastThought(stateManager).confidence = Some(10)
        /\ \A i \in 1..Len(cycle.paths) :
               /\ cycle.paths[i] = cycle.thoughtsBefore + i
               /\ stateManager.state.thoughts[cycle.paths[i]].type = "thought"

\* C5 witness: the handler of extractWebContent has thrown in a cycle that
\* had generated two candidate paths.
C5_Witness ==
    /\ pc = "returned"
    /\ cycle.thrown = "handle"
    /\ cycle.handled = "extractWebContent"
    /\ Len(cycle.paths) = 2

\* C6: no failure of an oracle call made in a cycle (path generation, tool
\* selection, evaluation) propagates out of executeReActCycle or aborts the
\* research loop: the cycle returns {result: {error}, score: 0.1,
\* nextAction: 'explore_new'} after logging a 0.1-confidence observation.
C6_OracleFailureContained ==
    cycle.thrown \in {"generateReasoningPaths", "selectTool", "evaluateResults"} =>
        /\ pc # "failed"
        /\ pc = "returned" =>
               /\ ErrorReturned
               /\ LastThought(stateManager).type = "observation"
               /\ LastThought(stateManager).confidence = Some(10)

\* C7: whenever the tool-selection oracle call fails, by throwing or by
\* returning null, selectTool yields {name: 'searchWeb', input: {query:
\* topic}} and the cycle goes on to invoke a tool: tool selection does not
\* end the cycle.
C7_SelectionFallback ==
    cycle.selection \in {"throw", "null"} =>
        /\ cycle.toolRequest =
               Some([name |-> "searchWeb",
                     input |-> [query |-> stateManager.state.currentTopic]])
        /\ cycle.thrown # "selectTool"
        /\ pc = "returned" => cycle.handled = "searchWeb"

\* C8: when the tool name chosen by the oracle is not the name of a
\* registered tool, the cycle invokes the search tool instead and does not
\* end as a failed cycle.
C8_UnknownToolFallback ==
    (pc = "returned" /\ cycle.toolRequest # Undefined
        /\ ~toolFound(cycle.toolRequest[1].name)) =>
        /\ cycle.handled = "searchWeb"
        /\ ~ErrorReturned

\* C9: the sufficiency oracle is consulted only in a cycle numbered above 5
\* whose score is above 0.8; the loop is left for the report before the
\* maximum cycle count only after such a consultation answered 'sufficient'
\* (a text without YES); after an 'insufficient' answer the loop goes on with
\* the next cycle.
C9_TwoKeyTermination ==
    /\ [](pc = "shouldContinueResearch" =>
             reasoningCycles > 5 /\ cycleReturn.score > 80)
    /\ []((pc \in {"generateReport", "done"}
              /\ reasoningCycles < maxReasoningCycles) =>
             /\ reasoningCycles > 5
             /\ cycleReturn.score > 80
             /\ answer # <<>>
             /\ ~shouldContinue(answer))
    /\ [][(pc = "shouldContinueResearch" /\ pc' # "failed") =>
             IF shouldContinue(answer') THEN pc' = "loop"
             ELSE pc' = "generateReport"]_vars
    /\ [][(pc = "loop" /\ reasoningCycles < maxReasoningCycles) =>
             /\ pc' = "generateReasoningPaths"
             /\ reasoningCycles' = reasoningCycles + 1]_vars

\* C9 witness: cycle 6 scored 0.85, the sufficiency oracle answered YES
\* (more research is needed), and cycle 7 is running.
C9_Witness ==
    /\ reasoningCycles = 7
    /\ pc = "generateReasoningPaths"
    /\ shouldContinue(answer)
    /\ \E i \in 1..Len(contextWindow) :
          contextWindow[i] = [cycle |-> 6, score |-> 85]

-----------------------------------------------------------------------------
(* Claims on who may change the state and on the range of confidences *)

\* C15: getState() returns a snapshot for reading only: no change a caller
\* makes to the returned value (its thought list, its collectedInfo map, its
\* tree nodes or its Thoughts) alters the state the State Manager holds.
C15_SnapshotIsolated ==
    [][Called("snapshotWrite") => stateManager' = stateManager]_vars

\* C16: in every reachable state, every Thought in the log that has a
\* confidence has it within [0, 1], whatever confidence callers pass to
\* addThought.
C16_ConfidenceInRange ==
    \A i \in 1..Len(stateManager.state.thoughts) :
        LET c == stateManager.state.thoughts[i].confidence
        IN c # Undefined => (0 <= c[1] /\ c[1] <= 100)

-----------------------------------------------------------------------------
(* Claims on a cycle's result and on what the loop does with it *)

\* The evaluation text "8/10"
EightOfTen == <<Num(800), Word("/"), Num(1000)>>

\* The first cycle of a session has returned; the oracle gave one candidate
\* path of promise 'high', tool selection gave searchWeb with the topic as
\* query, the search returned a non-empty list and the evaluation text was
\* "8/10".
C11_Scenario ==
    /\ pc = "returned"
    /\ reasoningCycles = 1
    /\ Len(cycle.paths) = 1
    /\ stateManager.state.thoughts[cycle.paths[1]].confidence =
           Some(PromiseConfidence("high"))
    /\ cycle.selection = "output"
    /\ cycle.toolRequest =
           Some([name |-> "searchWeb",
                 input |-> [query |-> stateManager.state.currentTopic]])
    /\ cycle.result = [kind |-> "value", value |-> "results"]
    /\ cycle.evaluation = EightOfTen

\* C11: in that cycle the score returned is 0.8 and the next action is
\* 'continue', the tree is the root plus exactly one thought node plus
\* exactly one observation node, and collectedInfo holds exactly one entry,
\* keyed by the query.
C11_EndToEnd ==
    C11_Scenario =>
        LET m == stateManager
        IN /\ cycleReturn.score = 80
           /\ cycleReturn.nextAction = "continue"
           /\ Len(m.nodes) = 3
           /\ Cardinality({h \in NodeRefs(m) \ {Root(m)} :
                  m.state.thoughts[m.nodes[h].thought].type = "thought"}) = 1
           /\ Cardinality({h \in NodeRefs(m) \ {Root(m)} :
                  m.state.thoughts[m.nodes[h].thought].type = "observation"}) = 1
           /\ Len(m.state.collectedInfo) = 1
           /\ m.state.collectedInfo[1].key = cycle.toolRequest[1].input.query

\* C17: the score a cycle returns lies in [0, 1] for every reply of the
\* evaluation oracle (no number, a number above the scale such as "15/10",
\* several numbers), and it is the confidence patched onto the cycle's
\* observation Thought.
C17_ScoreInRange ==
    (pc = "returned" /\ cycle.thrown = "none" /\ cycle.evaluation # <<>>) =>
        /\ 0 <= cycleReturn.score
        /\ cycleReturn.score <= 100
        /\ stateManager.state.thoughts[cycle.observation].confidence =
               Some(cycleReturn.score)

\* research() has ended otherwise than by a failed cycle: the sufficiency
\* call or report generation threw.
FailedOutsideCycles ==
    /\ pc = "failed"
    /\ cycle.thrown \notin {"generateReasoningPaths", "selectBestPath"}

\* C18: a session in which some cycles fail still ends with a final report:
\* unless report generation (or the sufficiency call) itself fails,
\* research() reaches status 'reporting' and stores the report through
\* setFinalReport, for every pattern of failed and successful cycles.
C18_BestEffortReport ==
    <>(\/ /\ pc = "done"
          /\ stateManager.state.status = "reporting"
          /\ stateManager.state.finalReport = "report"
       \/ FailedOutsideCycles)

\* C19: when a cycle has returned 'backtrack', research() repositions the
\* cursor, before the next cycle begins, to a node created earlier than the
\* node the cycle ended on.
C19_Backtracks ==
    [][(pc = "returned" /\ cycleReturn.nextAction = "backtrack") =>
          Cursor(stateManager') < Cursor(stateManager)]_vars

\* C20: when a cycle has returned 'explore_new', the Thoughts the next cycle
\* records are attached under the root node, not under the node the previous
\* cycle ended on.
C20_FreshBranchFromRoot ==
    (pc = "selectTool" /\ cycleReturn.nextAction = "explore_new") =>
        LET m == stateManager
        IN \A i \in 1..Len(cycle.paths) :
               m.state.thoughts[cycle.paths[i]].parentId =
                   Some(m.nodes[Root(m)].id)

-----------------------------------------------------------------------------
(* Claims on the stages of a cycle *)

\* The cycle has returned without an error.
CompletedCycle == pc = "returned" /\ cycle.thrown = "none"

\* C21: for every cycle that completes without error, the returned pair
\* (score, nextAction) obeys the numeric policy: score >= 0.7 gives
\* 'continue', 0.4 <= score < 0.7 gives 'continue' or 'explore_new', and
\* score < 0.4 gives 'backtrack' or 'explore_new'.
C21_ReturnedPairObeysPolicy ==
    CompletedCycle =>
        LET score == cycleReturn.score
            nextAction == cycleReturn.nextAction
        IN /\ score >= 70 => nextAction = "continue"
           /\ (40 <= score /\ score < 70) =>
                  nextAction \in {"continue", "explore_new"}
           /\ score < 40 => nextAction \in {"backtrack", "explore_new"}

\* C22: when research() ends with a terminal error, the status is 'idle' at
\* the moment the error reaches the caller.
C22_IdleOnTerminalError ==
    pc = "failed" => stateManager.state.status = "idle"

\* The confidence of a candidate Thought
PathConfidence(t) == stateManager.state.thoughts[t].confidence[1]

\* C23: selectBestPath returns null exactly when the candidate list is empty
\* (and the cycle then invokes no tool); otherwise it returns a candidate
\* whose confidence is maximal in the list, and among the candidates of that
\* confidence the one generated first.
C23_SelectBestPath ==
    /\ cycle.thrown = "selectBestPath" =>
           /\ Len(cycle.paths) = 0
           /\ cycle.selectedPath = 0
           /\ cycle.handled = "none"
           /\ pc = "failed"
    /\ pc \in {"selectTool", "handle", "evaluateResults", "decide", "returned"} =>
           /\ Len(cycle.paths) > 0
           /\ \E i \in 1..Len(cycle.paths) :
                  /\ cycle.selectedPath = cycle.paths[i]
                  /\ \A j \in 1..Len(cycle.paths) :
                         PathConfidence(cycle.paths[j])
                             <= PathConfidence(cycle.paths[i])
                  /\ \A j \in 1..(i - 1) :
                         PathConfidence(cycle.paths[j])
                             < PathConfidence(cycle.paths[i])

\* C23 witness: two candidates of equal confidence, the first was selected.
C23_Witness ==
    /\ pc = "selectTool"
    /\ Len(cycle.paths) = 2
    /\ PathConfidence(cycle.paths[1]) = PathConfidence(cycle.paths[2])
    /\ cycle.selectedPath = cycle.paths[1]

\* The stages of a cycle, in their order
StageOrder ==
    {<<"generateReasoningPaths", "selectTool">>, <<"selectTool", "handle">>,
     <<"handle", "evaluateResults">>, <<"evaluateResults", "decide">>,
     <<"decide", "returned">>}

\* What has happened, and what has not yet, at each stage of a cycle.
StageInvariant ==
    LET m == stateManager
        logged == Len(m.state.thoughts)
        before == cycle.thoughtsBefore
        n == Len(cycle.paths)
    IN /\ pc = "generateReasoningPaths" =>
              /\ logged = before
              /\ cycle.toolRequest = Undefined
              /\ m.state.status = "thinking"
       /\ pc = "selectTool" =>
              /\ n >= 1 /\ logged = before + n
              /\ cycle.selectedPath # 0
              /\ cycle.toolRequest = Undefined /\ cycle.handled = "none"
              /\ m.state.status = "thinking"
       /\ pc = "handle" =>
              /\ cycle.toolRequest # Undefined /\ cycle.handled = "none"
              /\ cycle.observation = 0 /\ logged = before + n
              /\ m.state.status = "acting"
       /\ pc = "evaluateResults" =>
              /\ cycle.handled = cycle.toolRequest[1].name
              /\ cycle.observation = before + n + 1
              /\ logged = before + n + 1
              /\ m.state.thoughts[cycle.observation].type = "observation"
              /\ m.state.thoughts[cycle.observation].confidence = Undefined
              /\ ~m.nodes[Cursor(m)].isExplored
              /\ m.state.status = "observing"
       /\ pc = "decide" =>
              /\ m.state.thoughts[cycle.observation].confidence =
                     Some(cycleReturn.score)
              /\ m.nodes[Cursor(m)].isExplored
              /\ cycleReturn.nextAction = "none"
              /\ m.state.status = "observing"
       /\ CompletedCycle =>
              /\ cycleReturn.nextAction \in {"continue", "backtrack", "explore_new"}
              /\ m.state.thoughts[cycle.observation].confidence =
                     Some(cycleReturn.score)
              /\ m.nodes[Cursor(m)].isExplored
              /\ logged = before + n + 1
              /\ m.state.status = "observing"

\* C24: within one cycle the stages run in a fixed order and none is skipped
\* unless an earlier one failed: candidate Thoughts are recorded before a
\* tool is selected, the tool is invoked before the observation is recorded,
\* the observation is recorded before it is scored, the node is marked
\* explored after scoring and before the next action is decided; the status
\* sequence of a successful cycle is thinking, acting, observing.
C24_StageOrder ==
    /\ []StageInvariant
    /\ [][(pc \in {"generateReasoningPaths", "selectTool", "handle",
                   "evaluateResults", "decide"} /\ pc' # pc) =>
              \/ <<pc, pc'>> \in StageOrder
              \/ pc' \in {"returned", "failed"} /\ cycle'.thrown # "none"]_vars

\* C24 witness: a successful cycle, the second of its session, that generated
\* two candidates and used extractWebContent.
C24_Witness ==
    /\ CompletedCycle
    /\ reasoningCycles = 2
    /\ Len(cycle.paths) = 2
    /\ cycle.handled = "extractWebContent"

\* C25: the tool-usage count reported for a tool name is the number of times
\* that tool's handler was invoked, and names whose handler was never invoked
\* have no count (stated for the end of a session's first cycle, in which at
\* most one handler is invoked).
C25_UsageCountsInvocations ==
    (pc = "returned" /\ reasoningCycles = 1) =>
        /\ DOMAIN toolUsageCount =
               (IF cycle.handled = "none" THEN {} ELSE {cycle.handled})
        /\ \A name \in DOMAIN toolUsageCount : toolUsageCount[name] = 1

\* C26: in a successful cycle the node markCurrentNodeExplored marks is the
\* node of the path selectBestPath chose, and the cycle's observation is a
\* child of that node.
C26_MarksChosenPath ==
    CompletedCycle =>
        LET m == stateManager
        IN /\ \E h \in NodeRefs(m) :
                  /\ m.nodes[h].thought = cycle.selectedPath
                  /\ m.nodes[h].isExplored
           /\ m.state.thoughts[cycle.observation].parentId =
                  Some(m.state.thoughts[cycle.selectedPath].id)

-----------------------------------------------------------------------------
(* Claims on the shape of the log and the tree *)

\* C29: the log and the tree agree: the log holds exactly one Thought per
\* tree node and no others (same id, in creation order, the root's first);
\* the parentId of every non-root node's Thought is the id of the node's
\* parent in the tree, and the root's Thought has no parentId.
C29_LogMatchesTree ==
    LET m == stateManager
    IN /\ Len(m.state.thoughts) = Len(m.nodes)
       /\ Root(m) = 1
       /\ m.state.thoughts[Root(m)].parentId = Undefined
       /\ \A h \in NodeRefs(m) :
              /\ m.nodes[h].thought = h
              /\ m.nodes[h].id = m.state.thoughts[h].id
              /\ PathCount(m, Root(m), h, Len(m.nodes)) >= 1
              /\ h # Root(m) =>
                     \E e \in ParentEdges(m, h) :
                         m.state.thoughts[h].parentId = Some(m.nodes[e[1]].id)
              /\ \A i, j \in 1..Len(m.nodes[h].children) :
                     i < j => m.nodes[h].children[i] < m.nodes[h].children[j]

\* C29 witness: the root has two children, the second added after a
\* navigateToNode back to the root, and the first has a child of its own.
C29_Witness ==
    LET m == stateManager
    IN /\ Len(m.nodes[Root(m)].children) = 2
       /\ Len(m.nodes[m.nodes[Root(m)].children[1]].children) = 1
       /\ Cursor(m) = m.nodes[Root(m)].children[2]

MaxFollowUps == 3

\* What one getJson call can do: throw, answer without organic_results, or
\* answer with a list of that many results
SearchOutcomes ==
    {[kind |-> "throw", count |-> 0], [kind |-> "absent", count |-> 0]}
        \cup {[kind |-> "results", count |-> n] : n \in {0, 2, 5}}

\* searchWeb: the results of a query (each result is its rank), [] when
\* getJson throws or the response has no organic_results
searchWeb(outcome) ==
    IF outcome.kind = "results" THEN [r \in 1..outcome.count |-> r] ELSE <<>>

\* results.slice(0, 4).map(...): a snippet for each of the first four results
snippets(query, results) ==
    [r \in 1..(IF Len(results) < 4 THEN Len(results) ELSE 4) |->
        [query |-> query, link |-> results[r], source |-> "snippet"]]

\* followUpResults.flat()
RECURSIVE flat(_)
flat(lists) ==
    IF lists = <<>> THEN <<>> ELSE Head(lists) \o flat(Tail(lists))

\* A mutant of joinReady: the join resumes as soon as one search settled
joinReadyAny(promises) ==
    promises = <<>> \/ \E i \in 1..Len(promises) : promises[i].state = "fulfilled"

\* Promise.all(followUpResultsPromises) is fulfilled when every promise is
joinReady(promises) ==
    \A i \in 1..Len(promises) : promises[i].state = "fulfilled"

\* Phases 1-3 of research(topic): the initial search and analysis are done
\* and the oracle is asked for follow-up queries
InitialAnalysed ==
    /\ followUp.phase = "idle"
    /\ followUp' = [followUp EXCEPT !.phase = "phase4"]
    /\ UNCHANGED <<sessionVars, browserManager>>

\* Phase 4 and the start of Phase 5: the oracle's numbered list is parsed
\* into followUpQueries and every query's search is started by the map,
\* each running up to its await of getJson; research then awaits
\* Promise.all.  A throwing oracle ends research in its catch.
FollowUpQueriesGenerated ==
    /\ followUp.phase = "phase4"
    /\ \/ \E n \in 0..MaxFollowUps :
             followUp' = [followUp EXCEPT
                 !.phase = "phase5",
                 !.followUpResultsPromises =
                     [q \in 1..n |-> [state |-> "pending", value |-> <<>>,
                                      search |-> "pending"]]]
       \/ followUp' = [followUp EXCEPT !.phase = "error"]
    /\ UNCHANGED <<sessionVars, browserManager>>

\* One follow-up search settles: searchWeb returns its results (or [] from
\* its catch) and the mapped function returns the snippets
FollowUpSearchSettled ==
    /\ followUp.phase = "phase5"
    /\ \E q \in 1..Len(followUp.followUpResultsPromises) :
       \E outcome \in SearchOutcomes :
          /\ followUp.followUpResultsPromises[q].state = "pending"
          /\ followUp' = [followUp EXCEPT
                 !.followUpResultsPromises[q] =
                     [state |-> "fulfilled",
                      value |-> snippets(q, searchWeb(outcome)),
                      search |-> outcome.kind]]
    /\ UNCHANGED <<sessionVars, browserManager>>

\* await Promise.all(followUpResultsPromises) resumes research, which
\* flattens the results and enters Phase 6
FollowUpsJoined ==
    /\ followUp.phase = "phase5"
    /\ joinReady(followUp.followUpResultsPromises)
    /\ LET followUpResults ==
               [q \in 1..Len(followUp.followUpResultsPromises) |->
                   followUp.followUpResultsPromises[q].value]
       IN followUp' = [followUp EXCEPT
              !.phase = "phase6",
              !.followUpResults = followUpResults,
              !.flattenedFollowUpResults = flat(followUpResults)]
    /\ UNCHANGED <<sessionVars, browserManager>>

\* Phase 6 onwards: the synthesis reads flattenedFollowUpResults; research
\* returns the report, or the error string from its catch
DeepAnalysed ==
    /\ followUp.phase = "phase6"
    /\ \E phase \in {"done", "error"} :
          followUp' = [followUp EXCEPT !.phase = phase]
    /\ UNCHANGED <<sessionVars, browserManager>>

NextFollowUp ==
    \/ InitialAnalysed
    \/ FollowUpQueriesGenerated
    \/ FollowUpSearchSettled
    \/ FollowUpsJoined
    \/ DeepAnalysed

SpecFollowUp == Init /\ [][NextFollowUp]_vars

\* C27: the follow-up searches are all started before any of them settles,
\* Phase 6 is entered only when every one of them has settled, with their
\* results in query order, a search that failed contributes an empty list,
\* and no search outcome makes research fail between the dispatch and the
\* join.
C27_FanOutJoined ==
    /\ [][followUp.phase = "phase4" /\ followUp'.phase = "phase5"
            => \A q \in 1..Len(followUp'.followUpResultsPromises) :
                  followUp'.followUpResultsPromises[q].state = "pending"]_vars
    /\ [](followUp.phase \in {"phase6", "done"}
            => /\ \A q \in 1..Len(followUp.followUpResultsPromises) :
                     followUp.followUpResultsPromises[q].state = "fulfilled"
               /\ Len(followUp.followUpResults)
                      = Len(followUp.followUpResultsPromises)
               /\ \A q \in 1..Len(followUp.followUpResults) :
                     /\ followUp.followUpResults[q]
                            = followUp.followUpResultsPromises[q].value
                     /\ \A r \in 1..Len(followUp.followUpResults[q]) :
                            followUp.followUpResults[q][r].query = q
                     /\ followUp.followUpResultsPromises[q].search = "throw"
                            => followUp.followUpResults[q] = <<>>
               /\ followUp.flattenedFollowUpResults
                      = flat(followUp.followUpResults))
    /\ [][followUp.phase = "phase5" => followUp'.phase \in {"phase5", "phase6"}]_vars

\* C27 witness: Phase 6 was entered after three follow-up searches of which
\* the second failed, the first found five results and the third two.
C27_Witness ==
    /\ followUp.phase = "phase6"
    /\ Len(followUp.followUpResultsPromises) = 3
    /\ followUp.followUpResultsPromises[2].search = "throw"
    /\ Len(followUp.followUpResults[1]) = 4
    /\ Len(followUp.followUpResults[3]) = 2
    /\ Len(followUp.flattenedFollowUpResults) = 6

\* ---------------------------------------------------------------------
\* BrowserManager: initBrowser and closeBrowser
\* ---------------------------------------------------------------------

\* The calls of initBrowser and closeBrowser made on one BrowserManager
MaxBrowserCalls == 6

\* Who calls initBrowser (getPage, for scrapePage, searchDuckDuckGo, ...)
Callers == DOMAIN NewBrowserManager.awaiting

\* The catch of initBrowser's async function: the promise is reset and
\* rejected with 'Failed to initialize browser'
launchFailed(bm, p) ==
    [bm EXCEPT !.initBrowserPromise = 0,
               !.promises[p] = [state |-> "rejected", value |-> 0]]

\* chromium.launch() resolved: this.browser = <the new browser>;
\* return this.browser
launched(bm, p) ==
    LET browser == bm.browsers + 1
    IN [bm EXCEPT !.browsers = browser,
                  !.browser = browser,
                  !.promises[p] = [state |-> "fulfilled", value |-> browser]]

\* initBrowser(), its synchronous part: without an initialization promise
\* the async function is started (it launches when there is no browser, and
\* returns the browser otherwise) and its promise is kept; the caller gets
\* the kept promise.
initBrowser(bm, caller) ==
    LET p == Len(bm.promises) + 1
        started == IF bm.browser = 0
                   THEN [state |-> "launching", value |-> 0]
                   ELSE [state |-> "fulfilled", value |-> bm.browser]
        kept == IF bm.initBrowserPromise = 0
                THEN [bm EXCEPT !.promises = Append(@, started),
                                !.initBrowserPromise = p]
                ELSE bm
    IN [kept EXCEPT !.awaiting[caller] =
                        [promise |-> kept.initBrowserPromise,
                         closes |-> bm.closes]]

\* A caller calls initBrowser
InitBrowserCalled ==
    /\ browserManager.calls < MaxBrowserCalls
    /\ \E caller \in Callers :
          /\ browserManager.awaiting[caller].promise = 0
          /\ LET bm == initBrowser(browserManager, caller)
                 launches == Len(bm.promises) > Len(browserManager.promises)
                                 /\ browserManager.browser = 0
             IN browserManager' = [bm EXCEPT
                    !.calls = @ + 1,
                    !.event = IF launches THEN "launching" ELSE @,
                    !.closeReturned = FALSE,
                    !.last = [op |-> "initBrowser", launches |-> launches]]
    /\ UNCHANGED <<sessionVars, followUp>>

\* chromium.launch() settles
LaunchSettled ==
    /\ \E p \in 1..Len(browserManager.promises) :
          /\ browserManager.promises[p].state = "launching"
          /\ \/ browserManager' = [launched(browserManager, p) EXCEPT
                    !.launchedSinceClose = @ + 1,
                    !.event = "launched",
                    !.last = [op |-> "launched"]]
             \/ browserManager' = [launchFailed(browserManager, p) EXCEPT
                    !.event = "failed",
                    !.last = [op |-> "launchFailed"]]
    /\ UNCHANGED <<sessionVars, followUp>>

\* A caller's await of initBrowser() resumes, with the browser or the error
InitBrowserReturned ==
    /\ \E caller \in Callers :
          LET mine == browserManager.awaiting[caller]
          IN /\ mine.promise # 0
             /\ browserManager.promises[mine.promise].state # "launching"
             /\ browserManager' = [browserManager EXCEPT
                    !.awaiting[caller] = [promise |-> 0, closes |-> 0],
                    !.received =
                        IF browserManager.promises[mine.promise].state = "fulfilled"
                        THEN @ \cup {[caller |-> caller, closes |-> mine.closes,
                                      browser |-> browserManager.promises[mine.promise].value]}
                        ELSE @,
                    !.last = [op |-> "returned"]]
    /\ UNCHANGED <<sessionVars, followUp>>

\* closeBrowser(), up to its await: nothing to do without a browser
CloseBrowserCalled ==
    /\ browserManager.calls < MaxBrowserCalls
    /\ browserManager.closing = 0
    /\ browserManager' = [browserManager EXCEPT
           !.closing = browserManager.browser,
           !.calls = @ + 1,
           !.closeReturned = (browserManager.browser = 0),
           !.last = [op |-> "closeBrowser", found |-> browserManager.browser # 0]]
    /\ UNCHANGED <<sessionVars, followUp>>

\* browser.close() settles: the fields are reset, or the error is logged
CloseSettled ==
    /\ browserManager.closing # 0
    /\ \/ browserManager' = [browserManager EXCEPT
              !.browser = 0,
              !.initBrowserPromise = 0,
              !.closing = 0,
              !.closes = @ + 1,
              !.launchedSinceClose = 0,
              !.event = "closed",
              !.closeReturned = TRUE,
              !.last = [op |-> "closed"]]
       \/ browserManager' = [browserManager EXCEPT
              !.closing = 0,
              !.closeReturned = TRUE,
              !.last = [op |-> "closeFailed"]]
    /\ UNCHANGED <<sessionVars, followUp>>

NextBrowser ==
    \/ InitBrowserCalled
    \/ LaunchSettled
    \/ InitBrowserReturned
    \/ CloseBrowserCalled
    \/ CloseSettled

SpecBrowser == Init /\ [][NextBrowser]_vars

\* An initBrowser call is made in this step
InitBrowserCallStep ==
    /\ browserManager'.calls = browserManager.calls + 1
    /\ browserManager'.last.op = "initBrowser"

\* C28: with initBrowser calls interleaved in any way, the callers whose
\* calls no closing of the browser separates receive the same browser, at
\* most one browser is launched between two closings of the browser, the
\* first initBrowser call after a failed launch launches again, and the
\* first initBrowser call after a closeBrowser call has returned launches a
\* new browser.
C28_OneBrowserPerEpoch ==
    /\ [](\A r1, r2 \in browserManager.received :
              r1.closes = r2.closes => r1.browser = r2.browser)
    /\ [](browserManager.launchedSinceClose <= 1)
    /\ [][InitBrowserCallStep /\ browserManager.event = "failed"
            => browserManager'.last.launches]_vars
    /\ [][InitBrowserCallStep /\ browserManager.closeReturned
            => browserManager'.last.launches]_vars

====
